---- MODULE Spec2Model ----
(***************************************************************************)
(* Model of the snp-guard attestation tools:                               *)
(*   - bin/get_report/main.rs            (SpecGetReport)                   *)
(*   - bin/sev_feature_info/..._main.rs  (SpecFeatureInfo)                 *)
(*   - calc_expected_ld.rs compute_expected_hash   (SpecExpectedHash)      *)
(*   - calc_expected_ld.rs format_guest_features   (SpecFormatFeatures)    *)
(* Each program is a sequential process; every action is one step of its   *)
(* main function between two interactions with the environment (device,    *)
(* file system, library call).  The environment's answers are chosen       *)
(* nondeterministically.                                                   *)
(*                                                                         *)
(* 64-bit words (GuestFeatures, MSR values) are represented by the set of  *)
(* the positions of their 1 bits, bytes by integers 0..255, a base64       *)
(* character by its 6-bit value (64 stands for any character outside the   *)
(* alphabet), Option<T> by a sequence of length 0 (None) or 1 (Some).      *)
(***************************************************************************)
EXTENDS Integers, Sequences, FiniteSets, TLC

VARIABLES
    pc,               \* position of the running program
    exit,             \* process exit status, "running" while it runs
    error,            \* the error main returned (a message), <<>> if none
    stderr,           \* lines written with eprintln!
    devCalls,         \* calls made to the secure-processor device, in order
    files,            \* output files of get_report: content per path
    args,             \* get_report: the parsed command line (Args)
    report_data_raw,  \* get_report: the decoded --report-data, a Result
    report_data,      \* get_report: the [u8; 64] buffer
    report,           \* get_report: raw bytes returned by the firmware
    attestation,      \* get_report: the decoded AttestationReport
    msr,              \* result of read_msr_value
    argv,             \* sev_feature_info: env::args()
    cpu_id,           \* sev_feature_info: the parsed core index
    desc,             \* compute_expected_hash: self (VMDescription)
    snp_measure_args, \* compute_expected_hash: SnpMeasurementArgs
    filesRead,        \* compute_expected_hash: files read by the measurement
    result,           \* compute_expected_hash: the returned Result
    features,         \* format_guest_features: the argument
    formatted         \* format_guest_features: the returned String

vars == <<pc, exit, error, stderr, devCalls, files, args, report_data_raw,
          report_data, report,
          attestation, msr, argv, cpu_id, desc, snp_measure_args, filesRead,
          result, features, formatted>>

grVars == <<files, args, report_data_raw, report_data, report, attestation>>
fiVars == <<argv, cpu_id>>
ldVars == <<desc, snp_measure_args, filesRead, result>>
gfVars == <<features, formatted>>

None == <<>>
Some(x) == <<x>>

Ok(v) == [ok |-> TRUE, val |-> v]
Err(e) == [ok |-> FALSE, val |-> e]

----------------------------------------------------------------------------
(* Bounds of the model. *)

\* longest base64 text given as --report-data (88 characters decode to 66 bytes)
MaxB64Len == 88
\* core indices 0..MaxCpuId may be asked for
MaxCpuId == 2
\* cores 0..NumCores-1 exist on the host
NumCores == 2
\* highest bit position of a 64-bit word that the inputs set
MaxBit == 16
\* most 1 bits in an input word
MaxOnes == 2
\* longest command-line argument of sev_feature_info
MaxArgLen == 2
\* largest vcpu_count of a descriptor
MaxVcpus == 2
\* longest kernel_cmdline of a descriptor
MaxCmdLen == 2

----------------------------------------------------------------------------
(* Words as bit sets. *)

RECURSIVE SubsetsUpTo(_, _)
SubsetsUpTo(S, k) ==
    IF k = 0 THEN {{}}
    ELSE LET smaller == SubsetsUpTo(S, k - 1)
         IN  smaller \cup {s \cup {b} : s \in smaller, b \in S}

\* the 64-bit input words of the model
Words == SubsetsUpTo(0..MaxBit, MaxOnes)

\* w >> n on a u64
ShiftRight(w, n) == {b - n : b \in {x \in w : x >= n}}

----------------------------------------------------------------------------
(* read_msr_value, the same function in both binaries. *)

MSR_AMD64_SEV == "0xC0010131"

\* host: [module: the msr kernel module is loaded (so /dev/cpu/N/msr exists
\* for the cores N the machine has), root: the caller may open the device,
\* sev: the processor implements the register, value: its content]
Hosts == [module : BOOLEAN, root : BOOLEAN, sev : BOOLEAN,
          value  : {{}, {0, 1}, {0, 1, 2, 5}}]

read_msr_value(host, cpu, msr_index) ==
    IF ~host.module \/ cpu >= NumCores THEN Err("No such file or directory")
    ELSE IF ~host.root THEN Err("Permission denied")
    ELSE IF ~host.sev THEN Err("Input/output error")
    ELSE Ok(host.value)

\* the eprintln! lines of the Err arm
MsrGuidance(cpu, e) ==
    << <<"Error reading MSR", MSR_AMD64_SEV, "on CPU", cpu, e>>,
       "Possible reasons:",
       "  1. The 'msr' kernel module is not loaded. Run 'sudo modprobe msr'.",
       "  2. You need 'sudo' to run this program.",
       "  3. The MSR index might not be valid or accessible on your specific CPU.",
       <<"  4. The cpu_id may not exist.", cpu>> >>

\* main returns Err(e), e a message and its parts: it is reported and the
\* status is 1
Fail(e) ==
    /\ pc' = "exit"
    /\ exit' = 1
    /\ error' = e

----------------------------------------------------------------------------
(* get_report: decoding and padding of --report-data. *)

\* general_purpose::STANDARD_NO_PAD.decode: four 6-bit characters give three
\* bytes; a last group of two or three characters gives one or two bytes and
\* its unused low bits must be zero; a last group of one character, and any
\* character outside the alphabet (the padding '=' included), is an error.
RECURSIVE DecodeGroups(_)
DecodeGroups(s) ==
    IF Len(s) = 0 THEN Ok(<<>>)
    ELSE IF Len(s) = 1 THEN Err("InvalidLength")
    ELSE IF Len(s) = 2 THEN
        IF s[2] % 16 # 0 THEN Err("InvalidLastSymbol")
        ELSE Ok(<< s[1] * 4 + s[2] \div 16 >>)
    ELSE IF Len(s) = 3 THEN
        IF s[3] % 4 # 0 THEN Err("InvalidLastSymbol")
        ELSE Ok(<< s[1] * 4 + s[2] \div 16, (s[2] % 16) * 16 + s[3] \div 4 >>)
    ELSE LET tail == DecodeGroups(SubSeq(s, 5, Len(s)))
         IN  IF ~tail.ok THEN tail
             ELSE Ok(<< s[1] * 4 + s[2] \div 16,
                        (s[2] % 16) * 16 + s[3] \div 4,
                        (s[3] % 4) * 64 + s[4] >> \o tail.val)

Base64Decode(s) ==
    IF \E i \in 1..Len(s) : s[i] >= 64 THEN Err("InvalidByte")
    ELSE DecodeGroups(s)

ReportDataLen == 64

\* the bound checked one too high
ReportDataTooLongOffByOne(len) == len > ReportDataLen + 1

\* if len > 64 { whatever!(...) }
ReportDataTooLong(len) == len > ReportDataLen

\* the decoded bytes handed on as they are, without the zero padding
PadReportDataUnpadded(raw) == raw

\* let mut report_data = [0u8; 64]; report_data[..len].copy_from_slice(raw)
PadReportData(raw) ==
    [i \in 1..ReportDataLen |-> IF i <= Len(raw) THEN raw[i] ELSE 0]

\* the base64 texts given on the command line: L characters; the character
\* at position i is seed + 16*(i-1) mod 64; with bad, the last one is outside
\* the alphabet
B64Seeds == {0, 4, 1}
B64Text(L, seed, bad) ==
    [i \in 1..L |-> IF bad /\ i = L THEN 64 ELSE (seed + 16 * (i - 1)) % 64]

B64Inputs == {B64Text(L, seed, bad) : L \in 0..MaxB64Len, seed \in B64Seeds,
                                      bad \in BOOLEAN}

RawReports == {"report_1", "report_2"}

OutFiles == {"attestation_report.json", "attestation_report.bin", "sev_feature.json"}

\* what the run has done to an output file: nothing, created or truncated it
\* without completing the write, or written content to it
Untouched == [state |-> "untouched", content |-> None]
Truncated == [state |-> "truncated", content |-> None]
Written(c) == [state |-> "written", content |-> Some(c)]

ArgsInputs == [report_data : B64Inputs, cpu_id : 0..MaxCpuId,
               out : {"attestation_report.json"},
               out_bin : {"attestation_report.bin"},
               out_sev : {"sev_feature.json"}]

----------------------------------------------------------------------------
(* get_report: main. *)

\* the initial values of every variable but those listed in overridden
InitExcept(overridden) ==
    /\ IF "args" \in overridden THEN TRUE ELSE args = None
    /\ IF "argv" \in overridden THEN TRUE ELSE argv = None
    /\ IF "desc" \in overridden THEN TRUE ELSE desc = None
    /\ IF "features" \in overridden THEN TRUE ELSE features = None
    /\ report_data_raw = None /\ report_data = None
    /\ report = None /\ attestation = None
    /\ files = [f \in OutFiles |-> Untouched]
    /\ devCalls = <<>> /\ msr = None /\ cpu_id = None
    /\ snp_measure_args = None /\ filesRead = {} /\ result = None
    /\ formatted = None
    /\ exit = "running" /\ error = None /\ stderr = <<>>

GrInit ==
    /\ pc = "gr_start"
    /\ args \in ArgsInputs
    /\ InitExcept({"args"})

\* lines 70-80
GrValidate ==
    /\ pc = "gr_start"
    /\ LET decoded == Base64Decode(args.report_data)
       IN  /\ report_data_raw' = Some(decoded)
           /\ IF ~decoded.ok
              THEN /\ Fail(<<"failed to decode report_data as base64", decoded.val>>)
                   /\ UNCHANGED report_data
              ELSE IF ReportDataTooLong(Len(decoded.val))
              THEN /\ Fail(<<"report data length should be <= 64 bytes, but got ",
                             Len(decoded.val), " bytes!">>)
                   /\ UNCHANGED report_data
              ELSE /\ report_data' = PadReportData(decoded.val)
                   /\ pc' = "gr_open"
                   /\ UNCHANGED <<exit, error>>
    /\ UNCHANGED <<stderr, devCalls, files, args, report, attestation, msr>>
    /\ UNCHANGED <<fiVars, ldVars, gfVars>>

\* line 82: Firmware::open()
GrOpen ==
    /\ pc = "gr_open"
    /\ devCalls' = Append(devCalls, <<"open">>)
    /\ \E opened \in BOOLEAN :
          IF opened
          THEN pc' = "gr_get_report" /\ UNCHANGED <<exit, error>>
          ELSE Fail(<<"failed to open sev firmware device. Is this a SEV-SNP guest?">>)
    /\ UNCHANGED <<stderr, files, args, report_data_raw, report_data, report,
                   attestation, msr>>
    /\ UNCHANGED <<fiVars, ldVars, gfVars>>

\* the request main hands to the firmware (line 83)
ReportRequest(data) == <<"get_report", None, Some(data), None>>

\* line 83: fw.get_report(None, Some(report_data), None)
GrGetReport ==
    /\ pc = "gr_get_report"
    /\ devCalls' = Append(devCalls, ReportRequest(report_data))
    /\ \/ \E raw \in RawReports :
             /\ report' = Some(raw)
             /\ pc' = "gr_from_bytes"
             /\ UNCHANGED <<exit, error>>
       \/ /\ Fail(<<"error getting report from firmware device">>)
          /\ UNCHANGED report
    /\ UNCHANGED <<stderr, files, args, report_data_raw, report_data,
                   attestation, msr>>
    /\ UNCHANGED <<fiVars, ldVars, gfVars>>

\* the library's codec, left uninterpreted: the object decoded from raw bytes,
\* its binary and its JSON encodings
from_bytes(raw) == [decoded_from |-> raw]
write_bytes(att) == [binary_of |-> att]
to_json(att) == [json_of |-> att]

\* lines 84-85: AttestationReport::from_bytes(report.as_slice())
GrFromBytes ==
    /\ pc = "gr_from_bytes"
    /\ \/ /\ attestation' = Some(from_bytes(report[1]))
          /\ pc' = "gr_read_msr"
          /\ UNCHANGED <<exit, error>>
       \/ /\ Fail(<<"failed to build attestation report object from bytes">>)
          /\ UNCHANGED attestation
    /\ UNCHANGED <<stderr, devCalls, files, args, report_data_raw, report_data,
                   report, msr>>
    /\ UNCHANGED <<fiVars, ldVars, gfVars>>

\* the Err arm returning the error from main instead of going on
GrMsrErrArmAborts(e) ==
    /\ stderr' = stderr \o MsrGuidance(args.cpu_id, e)
    /\ Fail(<<"failed to read MSR", e>>)

\* lines 110-117, the Err arm of the match on read_msr_value: the guidance is
\* printed and main goes on to line 120
GrMsrErrArm(e) ==
    /\ stderr' = stderr \o MsrGuidance(args.cpu_id, e)
    /\ pc' = "gr_save_json"
    /\ UNCHANGED <<exit, error>>

\* lines 87-96 and 110-118: match read_msr_value(args.cpu_id, MSR_AMD64_SEV)
GrReadMsr ==
    /\ pc = "gr_read_msr"
    /\ \E host \in Hosts :
          LET r == read_msr_value(host, args.cpu_id, MSR_AMD64_SEV)
          IN  /\ msr' = Some(r)
              /\ IF r.ok
                 THEN pc' = "gr_save_sev" /\ UNCHANGED <<stderr, exit, error>>
                 ELSE GrMsrErrArm(r.val)
    /\ UNCHANGED <<devCalls, files, args, report_data_raw, report_data, report,
                   attestation>>
    /\ UNCHANGED <<fiVars, ldVars, gfVars>>

\* json!({ "sev_status": v, "sev_feature": v >> 2 })
SevFeatureJson(sev_status_value) ==
    [sev_status |-> sev_status_value, sev_feature |-> ShiftRight(sev_status_value, 2)]

\* the failure only noted, main going on to save the report
GrSevFileErrorIgnored(e) ==
    /\ pc' = "gr_save_json"
    /\ UNCHANGED <<exit, error>>

\* the ? of lines 106 and 107: a failure to create or to write the SEV
\* feature file returns from main
GrSevFileError(e) == Fail(e)

\* lines 98-108
GrSaveSev ==
    /\ pc = "gr_save_sev"
    /\ \/ /\ GrSevFileError(<<"failed to create SEV feature file report">>)
          /\ UNCHANGED files
       \/ /\ GrSevFileError(<<"failed to write to file">>)
          /\ files' = [files EXCEPT ![args.out_sev] = Truncated]
       \/ /\ files' = [files EXCEPT ![args.out_sev] = Written(SevFeatureJson(msr[1].val))]
          /\ pc' = "gr_save_json"
          /\ UNCHANGED <<exit, error>>
    /\ UNCHANGED <<stderr, devCalls, args, report_data_raw, report_data, report,
                   attestation, msr>>
    /\ UNCHANGED <<fiVars, ldVars, gfVars>>

\* lines 121-123
GrSaveJson ==
    /\ pc = "gr_save_json"
    /\ \/ /\ Fail(<<"failed to create output file", args.out>>)
          /\ UNCHANGED files
       \/ /\ Fail(<<"failed to serialize report as json">>)
          /\ files' = [files EXCEPT ![args.out] = Truncated]
       \/ /\ files' = [files EXCEPT ![args.out] = Written(to_json(attestation[1]))]
          /\ pc' = "gr_save_bin"
          /\ UNCHANGED <<exit, error>>
    /\ UNCHANGED <<stderr, devCalls, args, report_data_raw, report_data, report,
                   attestation, msr>>
    /\ UNCHANGED <<fiVars, ldVars, gfVars>>

\* lines 127-135
GrSaveBin ==
    /\ pc = "gr_save_bin"
    /\ \/ /\ Fail(<<"failed to create file for binary report">>)
          /\ UNCHANGED files
       \/ /\ Fail(<<"failed to write binary attestation report">>)
          /\ files' = [files EXCEPT ![args.out_bin] = Truncated]
       \/ /\ files' = [files EXCEPT ![args.out_bin] = Written(write_bytes(attestation[1]))]
          /\ pc' = "exit"
          /\ exit' = 0
          /\ UNCHANGED error
    /\ UNCHANGED <<stderr, devCalls, args, report_data_raw, report_data, report,
                   attestation, msr>>
    /\ UNCHANGED <<fiVars, ldVars, gfVars>>

GrNext ==
    \/ GrValidate
    \/ GrOpen
    \/ GrGetReport
    \/ GrFromBytes
    \/ GrReadMsr
    \/ GrSaveSev
    \/ GrSaveJson
    \/ GrSaveBin

SpecGetReport == GrInit /\ [][GrNext]_vars

----------------------------------------------------------------------------
(* sev_feature_info: main. *)

ArgChars == {"0", "1", "9", "+", "-", "x"}

DigitValue(c) == CASE c = "0" -> 0 [] c = "1" -> 1 [] c = "9" -> 9 [] OTHER -> -1

RECURSIVE ParseDigits(_, _)
ParseDigits(s, acc) ==
    IF Len(s) = 0 THEN Ok(acc)
    ELSE IF DigitValue(s[1]) < 0 THEN Err("InvalidDigit")
    ELSE ParseDigits(Tail(s), acc * 10 + DigitValue(s[1]))

\* args[1].parse::<u32>(): decimal digits after an optional '+'; the empty
\* text, a lone sign and any other character are errors (no text of the model
\* is long enough to overflow)
ParseU32(s) ==
    IF Len(s) = 0 THEN Err("Empty")
    ELSE IF Len(s) = 1 /\ s[1] \in {"+", "-"} THEN Err("InvalidDigit")
    ELSE IF s[1] = "+" THEN ParseDigits(Tail(s), 0)
    ELSE ParseDigits(s, 0)

RECURSIVE TextsUpTo(_)
TextsUpTo(n) ==
    IF n = 0 THEN {<<>>}
    ELSE LET shorter == TextsUpTo(n - 1)
         IN  shorter \cup {Append(t, c) : t \in shorter, c \in ArgChars}

\* env::args(): the program name, then at most one argument
ArgvInputs == {<<"sev_feature_info">>}
              \cup {<<"sev_feature_info", t>> : t \in TextsUpTo(MaxArgLen)}

FiInit ==
    /\ pc = "fi_start"
    /\ argv \in ArgvInputs
    /\ InitExcept({"argv"})

\* line 42: Firmware::open()
FiOpen ==
    /\ pc = "fi_start"
    /\ devCalls' = Append(devCalls, <<"open">>)
    /\ \E opened \in BOOLEAN :
          IF opened
          THEN pc' = "fi_platform_status" /\ UNCHANGED <<exit, error>>
          ELSE Fail(<<"failed to talk to HW">>)
    /\ UNCHANGED <<stderr, msr, argv, cpu_id>>
    /\ UNCHANGED <<grVars, ldVars, gfVars>>

\* lines 44-48: firmware.snp_platform_status()
FiPlatformStatus ==
    /\ pc = "fi_platform_status"
    /\ devCalls' = Append(devCalls, <<"snp_platform_status">>)
    /\ \E answered \in BOOLEAN :
          IF answered
          THEN pc' = "fi_args" /\ UNCHANGED <<exit, error>>
          ELSE Fail(<<"error getting platform status">>)
    /\ UNCHANGED <<stderr, msr, argv, cpu_id>>
    /\ UNCHANGED <<grVars, ldVars, gfVars>>

\* std::process::exit(1) after the usage message
ExitUsage(msg) ==
    /\ stderr' = stderr \o <<msg, <<"Usage:", argv[1], "<cpu_id>">> >>
    /\ pc' = "exit"
    /\ exit' = 1

\* lines 54-71
FiArgs ==
    /\ pc = "fi_args"
    /\ IF Len(argv) > 1
       THEN LET parsed == ParseU32(argv[2])
            IN  IF parsed.ok
                THEN /\ cpu_id' = Some(parsed.val)
                     /\ pc' = "fi_read_msr"
                     /\ UNCHANGED <<stderr, exit>>
                ELSE /\ ExitUsage("Error: Invalid CPU ID provided. Please provide a non-negative integer.")
                     /\ UNCHANGED cpu_id
       ELSE /\ ExitUsage("Error: CPU ID not provided.")
            /\ UNCHANGED cpu_id
    /\ UNCHANGED <<error, devCalls, msr, argv>>
    /\ UNCHANGED <<grVars, ldVars, gfVars>>

\* the status main ends with once the match on read_msr_value is over
\* (line 93, Ok(()), after either arm)
FiExitAfterMsr(r) == 0

\* lines 73-93
FiReadMsr ==
    /\ pc = "fi_read_msr"
    /\ \E host \in Hosts :
          LET r == read_msr_value(host, cpu_id[1], MSR_AMD64_SEV)
          IN  /\ msr' = Some(r)
              /\ stderr' = IF r.ok THEN stderr
                           ELSE stderr \o MsrGuidance(cpu_id[1], r.val)
              /\ pc' = "exit"
              /\ exit' = FiExitAfterMsr(r)
    /\ UNCHANGED <<error, devCalls, argv, cpu_id>>
    /\ UNCHANGED <<grVars, ldVars, gfVars>>

FiNext ==
    \/ FiOpen
    \/ FiPlatformStatus
    \/ FiArgs
    \/ FiReadMsr

SpecFeatureInfo == FiInit /\ [][FiNext]_vars

----------------------------------------------------------------------------
(* calc_expected_ld.rs: format_guest_features. *)

\* the table with the name of bit 9 pushed for bit 8 as well
GuestFeatureNamesDuplicate ==
    << <<0,  "SNPActive">>,
       <<1,  "vTOM">>,
       <<2,  "ReflectVC">>,
       <<3,  "RestrictedInjection">>,
       <<4,  "AlternateInjection">>,
       <<5,  "DebugSwap">>,
       <<6,  "PreventHostIBS">>,
       <<7,  "BTBIsolation">>,
       <<8,  "SecureTSC">>,
       <<9,  "SecureTSC">>,
       <<10, "VmgexitParameter">>,
       <<12, "IbsVirtualization">>,
       <<14, "VmsaRegProt">>,
       <<15, "SmtProtection">> >>

\* the accessors of GuestFeatures tested by lines 45-86, in that order: the
\* bit each reads and the name pushed when it is set.  Bits 11, 13 and 16..63
\* of the word have no accessor.
GuestFeatureNames ==
    << <<0,  "SNPActive">>,
       <<1,  "vTOM">>,
       <<2,  "ReflectVC">>,
       <<3,  "RestrictedInjection">>,
       <<4,  "AlternateInjection">>,
       <<5,  "DebugSwap">>,
       <<6,  "PreventHostIBS">>,
       <<7,  "BTBIsolation">>,
       <<8,  "VmplSSS">>,
       <<9,  "SecureTSC">>,
       <<10, "VmgexitParameter">>,
       <<12, "IbsVirtualization">>,
       <<14, "VmsaRegProt">>,
       <<15, "SmtProtection">> >>

\* lines 43-86: the Vec enabled_features after the chain of ifs
RECURSIVE EnabledFeatures(_, _)
EnabledFeatures(w, i) ==
    IF i > Len(GuestFeatureNames) THEN <<>>
    ELSE IF GuestFeatureNames[i][1] \in w
         THEN <<GuestFeatureNames[i][2]>> \o EnabledFeatures(w, i + 1)
         ELSE EnabledFeatures(w, i + 1)

\* [&str]::join(sep)
RECURSIVE Join(_, _)
Join(names, sep) ==
    IF Len(names) = 0 THEN ""
    ELSE IF Len(names) = 1 THEN names[1]
    ELSE names[1] \o sep \o Join(Tail(names), sep)

\* lines 42-94
format_guest_features(w) ==
    LET enabled_features == EnabledFeatures(w, 1)
    IN  IF Len(enabled_features) = 0 THEN "None"
        ELSE Join(enabled_features, ", ")

GfInit ==
    /\ pc = "gf_call"
    /\ features \in Words
    /\ InitExcept({"features"})

GfFormat ==
    /\ pc = "gf_call"
    /\ formatted' = Some(format_guest_features(features))
    /\ pc' = "gf_return"
    /\ UNCHANGED <<exit, error, stderr, devCalls, msr, features>>
    /\ UNCHANGED <<grVars, fiVars, ldVars>>

GfNext == GfFormat

SpecFormatFeatures == GfInit /\ [][GfNext]_vars

----------------------------------------------------------------------------
(* calc_expected_ld.rs: VMDescription::compute_expected_hash. *)

\* the variants of snp_validate_report::ProductName
ProductName == {"Milan", "Genoa"}

CmdlineChars == {"a", " "}

RECURSIVE CmdlinesUpTo(_)
CmdlinesUpTo(n) ==
    IF n = 0 THEN {<<>>}
    ELSE LET shorter == CmdlinesUpTo(n - 1)
         IN  shorter \cup {Append(t, c) : t \in shorter, c \in CmdlineChars}

\* the fields of VMDescription that compute_expected_hash reads, and
\* host_cpu_family; platform_info, min_commited_tcb, guest_policy, family_id
\* and image_id are not read by it
VMDescriptions ==
    [host_cpu_family : ProductName,
     vcpu_count      : 0..MaxVcpus,
     ovmf_file       : {"OVMF.fd"},
     guest_features  : {{}, {0}, {0, 5}},
     kernel_file     : {"vmlinuz"},
     initrd_file     : {"initrd.img"},
     kernel_cmdline  : CmdlinesUpTo(MaxCmdLen)]

\* the vCPU type taken from the descriptor's CPU family
VcpuTypeOfFamily(d) ==
    IF d.host_cpu_family = "Milan" THEN "EpycMilan" ELSE "EpycGenoa"

\* line 118
VcpuType(d) == "EpycV4"

\* the command line passed whether or not it is empty
AppendAlways(d) == Some(d.kernel_cmdline)

\* lines 123-127
Append_(d) ==
    IF d.kernel_cmdline # <<>> THEN Some(d.kernel_cmdline) ELSE None

\* lines 116-131: the SnpMeasurementArgs built from self
MeasurementArgs(d) ==
    [vcpus          |-> d.vcpu_count,
     vcpu_type      |-> VcpuType(d),
     ovmf_file      |-> d.ovmf_file,
     guest_features |-> d.guest_features,
     kernel_file    |-> Some(d.kernel_file),
     initrd_file    |-> Some(d.initrd_file),
     append         |-> Append_(d),
     ovmf_hash_str  |-> None,
     vmm_type       |-> Some("QEMU")]

LdInit ==
    /\ pc = "ld_start"
    /\ desc \in VMDescriptions
    /\ InitExcept({"desc"})

\* lines 116-132: build the arguments and display them; nothing before line
\* 134 returns
LdBuildArgs ==
    /\ pc = "ld_start"
    /\ snp_measure_args' = Some(MeasurementArgs(desc))
    /\ formatted' = Some(format_guest_features(MeasurementArgs(desc).guest_features))
    /\ pc' = "ld_calc"
    /\ UNCHANGED result
    /\ UNCHANGED <<exit, error, stderr, devCalls, msr, desc, filesRead, features>>
    /\ UNCHANGED <<grVars, fiVars>>

\* the files the measurement reads, in the order it reads them
MeasuredFiles(a) == <<a.ovmf_file, a.kernel_file[1], a.initrd_file[1]>>

\* the library's digest, left uninterpreted
launch_digest(a) == [launch_digest_of |-> a]

\* lines 134-135: snp_calc_launch_digest(snp_measure_args).  The library reads
\* the files one after the other and fails at the first it cannot read; it
\* may also fail after reading them.
LdCalc ==
    /\ pc = "ld_calc"
    /\ LET fs == MeasuredFiles(snp_measure_args[1])
       IN  \/ \E k \in 1..Len(fs) :
                 /\ filesRead' = {fs[i] : i \in 1..(k - 1)}
                 /\ result' = Some(Err("failed to compute launch digest"))
                 /\ pc' = "ld_return"
           \/ /\ filesRead' = {fs[i] : i \in 1..Len(fs)}
              /\ result' = Some(Err("failed to compute launch digest"))
              /\ pc' = "ld_return"
           \/ /\ filesRead' = {fs[i] : i \in 1..Len(fs)}
              /\ result' = Some(Ok(launch_digest(snp_measure_args[1])))
              /\ pc' = "ld_serialize"
    /\ UNCHANGED <<exit, error, stderr, devCalls, msr, desc, snp_measure_args>>
    /\ UNCHANGED <<grVars, fiVars, gfVars>>

\* lines 136-141: bincode::serialize and the conversion to [u8; 48]
LdSerialize ==
    /\ pc = "ld_serialize"
    /\ \/ result' = Some(Err("failed to bincode serialized SnpLaunchDigest to Vec<u8>"))
       \/ result' = Some(Err("SnpLaunchDigest has unexpected length"))
       \/ UNCHANGED result
    /\ pc' = "ld_return"
    /\ UNCHANGED <<exit, error, stderr, devCalls, msr, desc, snp_measure_args,
                   filesRead>>
    /\ UNCHANGED <<grVars, fiVars, gfVars>>

LdNext ==
    \/ LdBuildArgs
    \/ LdCalc
    \/ LdSerialize

SpecExpectedHash == LdInit /\ [][LdNext]_vars

----------------------------------------------------------------------------
(* Properties of get_report, checked under SpecGetReport. *)

\* the decoded --report-data of the run, computed from the command line
DecodedInput == Base64Decode(args.report_data)

\* the report requests the run has issued to the firmware
ReportRequests ==
    {devCalls[i] : i \in {j \in 1..Len(devCalls) : devCalls[j][1] = "get_report"}}

\* C1: a decoded report-data input longer than 64 bytes ends the run with an
\* error whose message states the length received, and no call to the
\* secure-processor device (open or report request) is made on that run.
C1_OversizedReportDataRejected ==
    (pc # "gr_start" /\ DecodedInput.ok /\ Len(DecodedInput.val) > 64) =>
        /\ pc = "exit"
        /\ exit = 1
        /\ error = <<"report data length should be <= 64 bytes, but got ",
                     Len(DecodedInput.val), " bytes!">>
        /\ devCalls = <<>>

C1_Witness ==
    /\ pc = "exit"
    /\ DecodedInput.ok
    /\ Len(DecodedInput.val) = 65
    /\ exit = 1

\* data is raw followed by zeros up to 64 bytes
IsZeroPadded(data, raw) ==
    /\ Len(data) = 64
    /\ \A i \in 1..Len(raw) : data[i] = raw[i]
    /\ \A i \in (Len(raw) + 1)..64 : data[i] = 0

\* C2: a decoded report-data input of n <= 64 bytes is accepted (the run goes
\* on to open the device and, once it is open, to request the report), and the
\* value handed to the firmware report request is exactly 64 bytes long, its
\* first n bytes the input in order and its other 64 - n bytes zero.
C2_ReportDataZeroPadded ==
    (pc # "gr_start" /\ DecodedInput.ok /\ Len(DecodedInput.val) <= 64) =>
        /\ pc = "gr_open" \/ devCalls[1] = <<"open">>
        /\ pc \in {"gr_open", "gr_get_report"} =>
              IsZeroPadded(report_data, DecodedInput.val)
        /\ pc \notin {"gr_open", "gr_get_report", "exit"} => ReportRequests # {}
        /\ \A call \in ReportRequests :
              /\ call[2] = None
              /\ call[4] = None
              /\ Len(call[3]) = 1
              /\ IsZeroPadded(call[3][1], DecodedInput.val)

C2_Witness ==
    /\ ReportRequests # {}
    /\ DecodedInput.ok
    /\ Len(DecodedInput.val) = 64
    /\ \E i \in 1..64 : DecodedInput.val[i] # 0

\* C4: once the report is acquired and decoded, a failed read of the status
\* register is reported with the remediation text and does not end the run:
\* main goes on to the report files, and if the run fails afterwards it is a
\* report file that failed.
C4_MsrFailureDoesNotAbort ==
    (msr # None /\ ~msr[1].ok) =>
        /\ attestation # None
        /\ stderr = MsrGuidance(args.cpu_id, msr[1].val)
        /\ pc \in {"gr_save_json", "gr_save_bin", "exit"}
        /\ (pc = "exit" /\ exit # 0) =>
              /\ error[1] \in {"failed to create output file",
                               "failed to serialize report as json",
                               "failed to create file for binary report",
                               "failed to write binary attestation report"}
        /\ files[args.out_sev].state = "untouched"

C4_Witness ==
    /\ msr # None
    /\ ~msr[1].ok
    /\ pc = "exit"
    /\ exit = 0
    /\ files[args.out].state = "written"
    /\ files[args.out_bin].state = "written"

\* C10: the register is probed after the report is acquired and decoded and
\* before either report file is touched; when the read succeeds and the SEV
\* feature file is then not written (its creation or its write fails), the
\* run has ended with an error and neither report file has been written,
\* although a decoded report is held.
C10_SevFileFailureLosesReport ==
    /\ msr # None => report # None /\ attestation # None
    /\ pc \in {"gr_read_msr", "gr_save_sev"} =>
          /\ files[args.out].state = "untouched"
          /\ files[args.out_bin].state = "untouched"
    /\ (msr # None /\ msr[1].ok /\ pc # "gr_save_sev"
            /\ files[args.out_sev].state # "written") =>
          /\ pc = "exit"
          /\ exit = 1
          /\ error[1] \in {"failed to create SEV feature file report",
                           "failed to write to file"}
          /\ files[args.out].state = "untouched"
          /\ files[args.out_bin].state = "untouched"
          /\ attestation # None

C10_Witness ==
    /\ msr # None
    /\ msr[1].ok
    /\ pc = "exit"
    /\ exit = 1
    /\ files[args.out_sev].state = "truncated"
    /\ attestation # None
    /\ files[args.out].state = "untouched"

----------------------------------------------------------------------------
(* Properties of sev_feature_info, checked under SpecFeatureInfo. *)

\* C5: sev_feature_info exits with a non-zero status on any failure: status
\* zero occurs only when the device was opened, the platform status was
\* obtained, the core index was given and parsed, and the status register of
\* that core was read.
C5_AnyFailureExitsNonZero ==
    (pc = "exit" /\ exit = 0) =>
        /\ Len(devCalls) = 2
        /\ cpu_id # None
        /\ msr # None
        /\ msr[1].ok

----------------------------------------------------------------------------
(* Properties of compute_expected_hash, checked under SpecExpectedHash. *)

\* snp_calc_launch_digest has been called
LdCalcCalled == pc \in {"ld_serialize", "ld_return"}

\* C3: a descriptor whose vcpu_count is zero is rejected before any hashing:
\* no file is read, the launch-digest computation is never started, and the
\* result is a failure.
C3_ZeroVcpusRejected ==
    (desc.vcpu_count = 0) =>
        /\ ~LdCalcCalled
        /\ filesRead = {}
        /\ pc = "ld_return" => ~result[1].ok

\* C6: the measurement is given a kernel command line if and only if
\* kernel_cmdline is non-empty: the empty command line is passed as None, a
\* non-empty one is passed unchanged; and this is the argument the digest is
\* computed from.
C6_AppendIffCmdlineNonEmpty ==
    (snp_measure_args # None) =>
        LET a == snp_measure_args[1]
        IN  /\ (a.append = None) <=> (Len(desc.kernel_cmdline) = 0)
            /\ Len(desc.kernel_cmdline) > 0 =>
                  /\ Len(a.append) = 1
                  /\ a.append[1] = desc.kernel_cmdline
            /\ (result # None /\ result[1].ok) =>
                  result[1].val.launch_digest_of.append = a.append

C6_Witness ==
    /\ LdCalcCalled
    /\ result # None
    /\ result[1].ok
    /\ Len(desc.kernel_cmdline) = 0
    /\ snp_measure_args[1].append = None

\* C8 (as stated): the vCPU type given to the measurement is determined by
\* the descriptor's host_cpu_family: a descriptor that differs from this one
\* only in the CPU family is measured with a different vCPU type.
C8_VcpuTypeFollowsFamily ==
    (snp_measure_args # None) =>
        \A f \in ProductName \ {desc.host_cpu_family} :
            MeasurementArgs([desc EXCEPT !.host_cpu_family = f]).vcpu_type
                # snp_measure_args[1].vcpu_type

\* C8 (amended): the vCPU type given to the measurement is EpycV4 whatever the
\* descriptor's host_cpu_family: a descriptor that differs from this one only
\* in the CPU family is measured with the same arguments.
C8_VcpuTypeIsEpycV4 ==
    (snp_measure_args # None) =>
        /\ snp_measure_args[1].vcpu_type = "EpycV4"
        /\ \A f \in ProductName :
              MeasurementArgs([desc EXCEPT !.host_cpu_family = f])
                  = snp_measure_args[1]
        /\ (result # None /\ result[1].ok) =>
              result[1].val.launch_digest_of.vcpu_type = "EpycV4"

C8_Witness ==
    /\ LdCalcCalled
    /\ result # None
    /\ result[1].ok
    /\ desc.host_cpu_family = "Genoa"
    /\ snp_measure_args[1].vcpu_type = "EpycV4"

----------------------------------------------------------------------------
(* Properties of format_guest_features, checked under SpecFormatFeatures. *)

\* the bits of the word that SEV_FEATURES names (0..10, 12, 14, 15)
NamedFeatureBits == (0..10) \cup {12, 14, 15}

\* C7 (as stated): the name list determines the bitmask bit for bit: no other
\* bitmask renders to the same string; and the all-zero bitmask renders as
\* "None".
C7_RenderingDeterminesMask ==
    (formatted # None) =>
        /\ \A g \in Words : g # features => format_guest_features(g) # formatted[1]
        /\ features = {} => formatted[1] = "None"

\* C7 (amended): the name list determines the named feature bits of the
\* bitmask: another bitmask renders to the same string exactly when it has the
\* same named bits, whatever its other bits; and the string is "None" exactly
\* when no named bit is set.
C7_RenderingDeterminesNamedBits ==
    (formatted # None) =>
        /\ \A g \in Words :
              (format_guest_features(g) = formatted[1])
                  <=> (g \cap NamedFeatureBits = features \cap NamedFeatureBits)
        /\ (formatted[1] = "None") <=> (features \cap NamedFeatureBits = {})

C7_Witness ==
    /\ formatted # None
    /\ features = {8, 9}
    /\ formatted[1] = "VmplSSS, SecureTSC"

====
